---- MODULE Spec2Model ----
(***************************************************************************)
(* Model of the microut suite runner (src/microut.h).                      *)
(*                                                                         *)
(* One suite descriptor and its sentinel-terminated array of test          *)
(* descriptors are the program state.  __ut_run_test_suite is unfolded     *)
(* into one action per statement group; the user supplied hooks and test   *)
(* bodies are arbitrary sequences of UT_ASSERT, each assertion holding or  *)
(* failing nondeterministically, ended either by a plain return or by the  *)
(* return inside a failed UT_ASSERT.  The observer macros of config.h      *)
(* have no effect on the engine; the model only counts their firings.      *)
(* Array indices are 1-based here (C index i is i-1).  Counters are        *)
(* unsigned int in C; the model keeps them far below 2^32.                 *)
(***************************************************************************)
EXTENDS Integers, Sequences, FiniteSets, TLC

\* Largest number of declared tests of the suite (the sentinel excluded).
MaxTests == 2
\* Largest number of UT_ASSERT evaluated by one invocation of startup or of
\* teardown, and on one test descriptor (before_each, body and after_each
\* together) in one run.
MaxAsserts == 3
\* The same two bounds for the runs whose hook behaviour is recorded and
\* replayed; FewTests also bounds the suites whose termination is checked.
FewTests == 1
FewAsserts == 2

VARIABLES
    suite,          \* struct __ut_test_suite_desc: started, performed_count, successed_count
    test_descs,     \* test_suite_desc->test_descs: the array, sentinel last
    pc,             \* position of control
    i,              \* loop variable of __ut_run_test_suite
    result,         \* value returned by the last return statement of the runner
    asserts,        \* UT_ASSERT evaluated so far by the running hook/body invocation
    failedInCall,   \* UT_ON_FAILED_ASSERT firings of the running (or last) invocation
    startupCalls,   \* invocations of startup in this run
    teardownCalls,  \* invocations of teardown in this run
    begun,          \* begun[j]: times the runner began test j in this run (line 268)
    beforeCalls,    \* beforeCalls[j]: invocations of before_each on test j in this run
    funcCalls,      \* funcCalls[j]: invocations of test j's body in this run
    afterCalls,     \* afterCalls[j]: invocations of after_each on test j in this run
    okTests,        \* okTests[j]: UT_ON_SUCCESSFUL_TEST firings for test j in this run
    failedTests,    \* failedTests[j]: UT_ON_FAILED_TEST firings for test j in this run
    startupFailed,  \* an assertion failed inside startup in this run
    teardownFailed, \* an assertion failed inside teardown in this run
    beforeFailed,   \* an assertion failed inside before_each on the current test
    testEvaluated,  \* UT_ASSERT evaluated on the current test since the runner began it
    suiteEvaluated, \* UT_ASSERT evaluated inside startup and teardown in this run
    suiteHeld,      \* those of them that held (UT_ON_SUCCESSFUL_ASSERT firings)
    mode,           \* kind of the current (or last) run: "free", "warmup", "record" or
                    \* "replay"; "begin", or an initial "warmup", is no run yet
    log,            \* the assertion outcomes of each hook/body invocation of the recorded run
    first           \* verdict and descriptors the recorded run ended with

vars == <<suite, test_descs, pc, i, result, asserts, failedInCall, startupCalls,
          teardownCalls, begun, beforeCalls, funcCalls, afterCalls, okTests,
          failedTests, startupFailed, teardownFailed, beforeFailed, testEvaluated,
          suiteEvaluated, suiteHeld, mode, log, first>>

hist == <<startupCalls, teardownCalls, begun, beforeCalls, funcCalls, afterCalls,
          okTests, failedTests, startupFailed, teardownFailed, beforeFailed>>

\* The assertion counts kept for the observers of UT_ASSERT.
obs == <<testEvaluated, suiteEvaluated, suiteHeld>>
\* The behaviour of the user's hooks and bodies.
env == <<mode, log, first>>

TestIds == 1..MaxTests
Zero == [j \in TestIds |-> 0]

\* UT_ADD_TEST / UT_TEST_SUITE_END initialisers.
UT_ADD_TEST == [func |-> "body", started |-> FALSE, performed_count |-> 0, successed_count |-> 0]
UT_TEST_SUITE_END == [func |-> "NULL", started |-> FALSE, performed_count |-> 0, successed_count |-> 0]

\* The array declared by UT_DECLARE_TEST_SUITE with n tests.
UT_DECLARE_TEST_SUITE(n) == [j \in 1..(n + 1) |-> IF j <= n THEN UT_ADD_TEST ELSE UT_TEST_SUITE_END]

\* Number of declared tests.
NumTests == Len(test_descs) - 1

\* Inspection macros.
UT_IS_TEST_STARTED(d) == d.started
UT_IS_TEST_SUCCESSED(d) == UT_IS_TEST_STARTED(d) /\ d.performed_count = d.successed_count
UT_IS_TEST_SUITE_STARTED(d) == d.started
UT_IS_TEST_SUITE_SUCCESSED(d) == UT_IS_TEST_SUITE_STARTED(d) /\ d.performed_count = d.successed_count
UT_IS_TEST_SKIPPED(d) == ~UT_IS_TEST_STARTED(d)
UT_IS_TEST_FAILED(d) == ~UT_IS_TEST_SUCCESSED(d)
UT_IS_TEST_SUITE_SKIPPED(d) == ~UT_IS_TEST_SUITE_STARTED(d)
UT_IS_TEST_SUITE_FAILED(d) == ~UT_IS_TEST_SUITE_SUCCESSED(d)

\* Positions at which a user hook or body is executing, and whose desc it was given.
SuiteHookPcs == {"startup", "teardown"}
TestHookPcs == {"before_each", "func", "after_each"}
HookPcs == SuiteHookPcs \cup TestHookPcs

\* Where the runner continues when the invocation at position p returns.
ReturnTo(p) ==
    CASE p = "startup" -> "check_startup"
      [] p = "before_each" -> "check_before"
      [] p = "func" -> "call_after"
      [] p = "after_each" -> "tally"
      [] p = "teardown" -> "return"

\* AssertOn with the two branches' counters mixed up: a failed assertion counts as a success only.
AssertOn_swapped(d, holds) ==
    IF holds
    THEN [d EXCEPT !.performed_count = @ + 1, !.successed_count = @ + 1]
    ELSE [d EXCEPT !.successed_count = @ + 1]

\* No invocation recorded: one outcome sequence per hook, and per test for the
\* per-test hooks and the body.
EmptyLog ==
    [startup |-> <<>>, teardown |-> <<>>,
     before_each |-> [j \in TestIds |-> <<>>],
     func |-> [j \in TestIds |-> <<>>],
     after_each |-> [j \in TestIds |-> <<>>]]

\* The recorded outcomes of the invocation running at pc.
Script == IF pc \in SuiteHookPcs THEN log[pc] ELSE log[pc][i]

\* The log after the running invocation evaluated one more assertion.
Recorded(holds) ==
    IF mode # "record" THEN log
    ELSE IF pc \in SuiteHookPcs
         THEN [log EXCEPT ![pc] = Append(@, holds)]
         ELSE [log EXCEPT ![pc][i] = Append(@, holds)]

\* A replayed invocation evaluates the assertions of the recorded one, with the
\* recorded outcomes, and returns where the recorded one returned.
MayAssert(holds) ==
    mode = "replay" => (asserts < Len(Script) /\ Script[asserts + 1] = holds)
MayReturn == mode = "replay" => asserts = Len(Script)

\* The mode of the run that follows a run of mode m.
NextMode(m) ==
    CASE m = "free" -> "free"
      [] m = "begin" -> "warmup"
      [] m = "warmup" -> "record"
      [] m = "record" -> "replay"
      [] m = "replay" -> "replay"

\* The bound on assertions in force.
AssertCap == IF mode = "free" THEN MaxAsserts ELSE FewAsserts

\* AssertOn whose passing branch sets successed_count to performed_count.
AssertOn_catchUp(d, holds) ==
    IF holds
    THEN [d EXCEPT !.performed_count = @ + 1, !.successed_count = d.performed_count + 1]
    ELSE [d EXCEPT !.performed_count = @ + 1]

\* Counter update of UT_ASSERT on the descriptor d.
AssertOn(d, holds) ==
    IF holds
    THEN [d EXCEPT !.performed_count = @ + 1, !.successed_count = @ + 1]
    ELSE [d EXCEPT !.performed_count = @ + 1]

\* AssertNext without the return of the failing branch: the invocation goes on.
AssertNext_continue(p, holds) == p

\* Control after UT_ASSERT at position p: falls through when it holds, returns otherwise.
AssertNext(p, holds) == IF holds THEN p ELSE ReturnTo(p)

Init ==
    /\ suite = [started |-> FALSE, performed_count |-> 0, successed_count |-> 0]
    /\ \E n \in 0..MaxTests : test_descs = UT_DECLARE_TEST_SUITE(n)
    /\ pc = "idle"
    /\ i = 1
    /\ result = FALSE
    /\ asserts = 0
    /\ failedInCall = 0
    /\ startupCalls = 0
    /\ teardownCalls = 0
    /\ begun = Zero
    /\ beforeCalls = Zero
    /\ funcCalls = Zero
    /\ afterCalls = Zero
    /\ okTests = Zero
    /\ failedTests = Zero
    /\ startupFailed = FALSE
    /\ teardownFailed = FALSE
    /\ beforeFailed = FALSE
    /\ testEvaluated = 0
    /\ suiteEvaluated = 0
    /\ suiteHeld = 0
    /\ mode = "free"
    /\ log = EmptyLog
    /\ first = [result |-> FALSE, suite |-> suite, test_descs |-> test_descs]

\* RunTestSuite without the reset of line 250: the suite counters go on from the last run.
RunTestSuite_noReset ==
    /\ pc \in {"idle", "done"}
    /\ mode # "replay"
    /\ suite' = [suite EXCEPT !.started = TRUE]
    /\ pc' = "startup"
    /\ i' = 1
    /\ result' = FALSE
    /\ asserts' = 0
    /\ failedInCall' = 0
    /\ startupCalls' = 1
    /\ teardownCalls' = 0
    /\ begun' = Zero
    /\ beforeCalls' = Zero
    /\ funcCalls' = Zero
    /\ afterCalls' = Zero
    /\ okTests' = Zero
    /\ failedTests' = Zero
    /\ startupFailed' = FALSE
    /\ teardownFailed' = FALSE
    /\ beforeFailed' = FALSE
    /\ UNCHANGED test_descs
    /\ testEvaluated' = 0
    /\ suiteEvaluated' = 0
    /\ suiteHeld' = 0
    /\ mode' = NextMode(mode)
    /\ first' = IF mode = "record"
                THEN [result |-> result, suite |-> suite, test_descs |-> test_descs]
                ELSE first
    /\ UNCHANGED log

\* RunTestSuite that also resets every test descriptor at entry.
RunTestSuite_resetTests ==
    /\ pc \in {"idle", "done"}
    /\ mode # "replay"
    /\ suite' = [started |-> TRUE, performed_count |-> 0, successed_count |-> 0]
    /\ pc' = "startup"
    /\ i' = 1
    /\ result' = FALSE
    /\ asserts' = 0
    /\ failedInCall' = 0
    /\ startupCalls' = 1
    /\ teardownCalls' = 0
    /\ begun' = Zero
    /\ beforeCalls' = Zero
    /\ funcCalls' = Zero
    /\ afterCalls' = Zero
    /\ okTests' = Zero
    /\ failedTests' = Zero
    /\ startupFailed' = FALSE
    /\ teardownFailed' = FALSE
    /\ beforeFailed' = FALSE
    /\ test_descs' = [j \in DOMAIN test_descs |->
            [test_descs[j] EXCEPT !.started = FALSE, !.performed_count = 0,
                                  !.successed_count = 0]]
    /\ testEvaluated' = 0
    /\ suiteEvaluated' = 0
    /\ suiteHeld' = 0
    /\ mode' = NextMode(mode)
    /\ first' = IF mode = "record"
                THEN [result |-> result, suite |-> suite, test_descs |-> test_descs]
                ELSE first
    /\ UNCHANGED log

\* Lines 249-254: mark the suite started, reset its counters, call startup.
RunTestSuite ==
    /\ pc \in {"idle", "done"}
    /\ mode # "replay"
    /\ suite' = [started |-> TRUE, performed_count |-> 0, successed_count |-> 0]
    /\ pc' = "startup"
    /\ i' = 1
    /\ result' = FALSE
    /\ asserts' = 0
    /\ failedInCall' = 0
    /\ startupCalls' = 1
    /\ teardownCalls' = 0
    /\ begun' = Zero
    /\ beforeCalls' = Zero
    /\ funcCalls' = Zero
    /\ afterCalls' = Zero
    /\ okTests' = Zero
    /\ failedTests' = Zero
    /\ startupFailed' = FALSE
    /\ teardownFailed' = FALSE
    /\ beforeFailed' = FALSE
    /\ UNCHANGED test_descs
    /\ testEvaluated' = 0
    /\ suiteEvaluated' = 0
    /\ suiteHeld' = 0
    /\ mode' = NextMode(mode)
    /\ first' = IF mode = "record"
                THEN [result |-> result, suite |-> suite, test_descs |-> test_descs]
                ELSE first
    /\ UNCHANGED log

\* UT_ASSERT inside startup or teardown: desc is the suite descriptor.
SuiteAssert(holds) ==
    /\ pc \in SuiteHookPcs
    /\ asserts < AssertCap
    /\ MayAssert(holds)
    /\ suite' = AssertOn(suite, holds)
    /\ pc' = AssertNext(pc, holds)
    /\ asserts' = asserts + 1
    /\ failedInCall' = IF holds THEN failedInCall ELSE failedInCall + 1
    /\ startupFailed' = (startupFailed \/ (pc = "startup" /\ ~holds))
    /\ teardownFailed' = (teardownFailed \/ (pc = "teardown" /\ ~holds))
    /\ UNCHANGED <<test_descs, i, result, startupCalls, teardownCalls, begun,
                   beforeCalls, funcCalls, afterCalls, okTests, failedTests, beforeFailed>>
    /\ suiteEvaluated' = suiteEvaluated + 1
    /\ suiteHeld' = IF holds THEN suiteHeld + 1 ELSE suiteHeld
    /\ log' = Recorded(holds)
    /\ UNCHANGED <<testEvaluated, mode, first>>

\* TestAssert that counts the assertion on the suite descriptor as well.
TestAssert_alsoSuite(holds) ==
    /\ pc \in TestHookPcs
    /\ test_descs[i].performed_count < AssertCap
    /\ MayAssert(holds)
    /\ test_descs' = [test_descs EXCEPT ![i] = AssertOn(@, holds)]
    /\ pc' = AssertNext(pc, holds)
    /\ asserts' = asserts + 1
    /\ failedInCall' = IF holds THEN failedInCall ELSE failedInCall + 1
    /\ beforeFailed' = (beforeFailed \/ (pc = "before_each" /\ ~holds))
    /\ suite' = AssertOn(suite, holds)
    /\ UNCHANGED <<i, result, startupCalls, teardownCalls, begun, beforeCalls,
                   funcCalls, afterCalls, okTests, failedTests, startupFailed,
                   teardownFailed>>
    /\ testEvaluated' = testEvaluated + 1
    /\ log' = Recorded(holds)
    /\ UNCHANGED <<suiteEvaluated, suiteHeld, mode, first>>

\* UT_ASSERT inside before_each, a test body or after_each: desc is the current test.
TestAssert(holds) ==
    /\ pc \in TestHookPcs
    /\ test_descs[i].performed_count < AssertCap
    /\ MayAssert(holds)
    /\ test_descs' = [test_descs EXCEPT ![i] = AssertOn(@, holds)]
    /\ pc' = AssertNext(pc, holds)
    /\ asserts' = asserts + 1
    /\ failedInCall' = IF holds THEN failedInCall ELSE failedInCall + 1
    /\ beforeFailed' = (beforeFailed \/ (pc = "before_each" /\ ~holds))
    /\ UNCHANGED <<suite, i, result, startupCalls, teardownCalls, begun, beforeCalls,
                   funcCalls, afterCalls, okTests, failedTests, startupFailed,
                   teardownFailed>>
    /\ testEvaluated' = testEvaluated + 1
    /\ log' = Recorded(holds)
    /\ UNCHANGED <<suiteEvaluated, suiteHeld, mode, first>>

\* A hook or body reaches its end without a failed assertion.
HookReturn ==
    /\ pc \in HookPcs
    /\ MayReturn
    /\ pc' = ReturnTo(pc)
    /\ UNCHANGED <<suite, test_descs, i, result, asserts, failedInCall>>
    /\ UNCHANGED hist
    /\ UNCHANGED obs
    /\ UNCHANGED env

\* StartupFailedReturn without the early return: the runner goes on to the tests.
StartupFailedReturn_continue ==
    /\ pc = "check_startup"
    /\ ~UT_IS_TEST_SUITE_SUCCESSED(suite)
    /\ i' = 1
    /\ pc' = "loop"
    /\ UNCHANGED <<suite, test_descs, result, asserts, failedInCall>>
    /\ UNCHANGED hist
    /\ UNCHANGED obs
    /\ UNCHANGED env

\* StartupFailedReturn that starts the run over instead of returning.
StartupFailedReturn_retry ==
    /\ pc = "check_startup"
    /\ ~UT_IS_TEST_SUITE_SUCCESSED(suite)
    /\ suite' = [started |-> TRUE, performed_count |-> 0, successed_count |-> 0]
    /\ pc' = "startup"
    /\ i' = 1
    /\ result' = FALSE
    /\ asserts' = 0
    /\ failedInCall' = 0
    /\ startupCalls' = 1
    /\ teardownCalls' = 0
    /\ begun' = Zero
    /\ beforeCalls' = Zero
    /\ funcCalls' = Zero
    /\ afterCalls' = Zero
    /\ okTests' = Zero
    /\ failedTests' = Zero
    /\ startupFailed' = FALSE
    /\ teardownFailed' = FALSE
    /\ beforeFailed' = FALSE
    /\ UNCHANGED test_descs
    /\ testEvaluated' = 0
    /\ suiteEvaluated' = 0
    /\ suiteHeld' = 0
    /\ UNCHANGED env

\* Lines 256-259: startup left the suite failed, return false.
StartupFailedReturn ==
    /\ pc = "check_startup"
    /\ ~UT_IS_TEST_SUITE_SUCCESSED(suite)
    /\ result' = FALSE
    /\ pc' = "done"
    /\ UNCHANGED <<suite, test_descs, i, asserts, failedInCall>>
    /\ UNCHANGED hist
    /\ UNCHANGED obs
    /\ UNCHANGED env

\* Lines 256, 262: startup left the suite successful, enter the loop with i = 0.
EnterLoop ==
    /\ pc = "check_startup"
    /\ UT_IS_TEST_SUITE_SUCCESSED(suite)
    /\ i' = 1
    /\ pc' = "loop"
    /\ UNCHANGED <<suite, test_descs, result, asserts, failedInCall>>
    /\ UNCHANGED hist
    /\ UNCHANGED obs
    /\ UNCHANGED env

\* BeginTest without the reset of line 269: the test keeps its counters of the last run.
BeginTest_noReset ==
    /\ pc = "loop"
    /\ test_descs[i].func # "NULL"
    /\ test_descs' = [test_descs EXCEPT ![i] =
            [@ EXCEPT !.started = TRUE]]
    /\ suite' = [suite EXCEPT !.performed_count = @ + 1]
    /\ begun' = [begun EXCEPT ![i] = @ + 1]
    /\ beforeCalls' = [beforeCalls EXCEPT ![i] = @ + 1]
    /\ beforeFailed' = FALSE
    /\ asserts' = 0
    /\ failedInCall' = 0
    /\ pc' = "before_each"
    /\ UNCHANGED <<i, result, startupCalls, teardownCalls, funcCalls, afterCalls,
                   okTests, failedTests, startupFailed, teardownFailed>>
    /\ testEvaluated' = 0
    /\ UNCHANGED <<suiteEvaluated, suiteHeld>>
    /\ UNCHANGED env

\* BeginTest without the increment of line 273: the test is not counted in the suite.
BeginTest_noCount ==
    /\ pc = "loop"
    /\ test_descs[i].func # "NULL"
    /\ test_descs' = [test_descs EXCEPT ![i] =
            [@ EXCEPT !.started = TRUE, !.performed_count = 0, !.successed_count = 0]]
    /\ suite' = suite
    /\ begun' = [begun EXCEPT ![i] = @ + 1]
    /\ beforeCalls' = [beforeCalls EXCEPT ![i] = @ + 1]
    /\ beforeFailed' = FALSE
    /\ asserts' = 0
    /\ failedInCall' = 0
    /\ pc' = "before_each"
    /\ UNCHANGED <<i, result, startupCalls, teardownCalls, funcCalls, afterCalls,
                   okTests, failedTests, startupFailed, teardownFailed>>
    /\ testEvaluated' = 0
    /\ UNCHANGED <<suiteEvaluated, suiteHeld>>
    /\ UNCHANGED env

\* Lines 262-276: the entry is not the sentinel; begin the test and call before_each.
BeginTest ==
    /\ pc = "loop"
    /\ test_descs[i].func # "NULL"
    /\ test_descs' = [test_descs EXCEPT ![i] =
            [@ EXCEPT !.started = TRUE, !.performed_count = 0, !.successed_count = 0]]
    /\ suite' = [suite EXCEPT !.performed_count = @ + 1]
    /\ begun' = [begun EXCEPT ![i] = @ + 1]
    /\ beforeCalls' = [beforeCalls EXCEPT ![i] = @ + 1]
    /\ beforeFailed' = FALSE
    /\ asserts' = 0
    /\ failedInCall' = 0
    /\ pc' = "before_each"
    /\ UNCHANGED <<i, result, startupCalls, teardownCalls, funcCalls, afterCalls,
                   okTests, failedTests, startupFailed, teardownFailed>>
    /\ testEvaluated' = 0
    /\ UNCHANGED <<suiteEvaluated, suiteHeld>>
    /\ UNCHANGED env

\* CallFunc without the check of line 278: the body is called whatever before_each did.
CallFunc_always ==
    /\ pc = "check_before"
    /\ funcCalls' = [funcCalls EXCEPT ![i] = @ + 1]
    /\ asserts' = 0
    /\ failedInCall' = 0
    /\ pc' = "func"
    /\ UNCHANGED <<suite, test_descs, i, result, startupCalls, teardownCalls, begun,
                   beforeCalls, afterCalls, okTests, failedTests, startupFailed,
                   teardownFailed, beforeFailed>>
    /\ UNCHANGED obs
    /\ UNCHANGED env

\* Lines 278-281: the test is successful after before_each; call its body.
CallFunc ==
    /\ pc = "check_before"
    /\ UT_IS_TEST_SUCCESSED(test_descs[i])
    /\ funcCalls' = [funcCalls EXCEPT ![i] = @ + 1]
    /\ asserts' = 0
    /\ failedInCall' = 0
    /\ pc' = "func"
    /\ UNCHANGED <<suite, test_descs, i, result, startupCalls, teardownCalls, begun,
                   beforeCalls, afterCalls, okTests, failedTests, startupFailed,
                   teardownFailed, beforeFailed>>
    /\ UNCHANGED obs
    /\ UNCHANGED env

\* SkipFunc that skips after_each together with the body.
SkipFunc_noAfter ==
    /\ pc = "check_before"
    /\ ~UT_IS_TEST_SUCCESSED(test_descs[i])
    /\ pc' = "tally"
    /\ UNCHANGED <<suite, test_descs, i, result, asserts, failedInCall>>
    /\ UNCHANGED hist
    /\ UNCHANGED obs
    /\ UNCHANGED env

\* Line 278: the test is failed after before_each; the body is skipped.
SkipFunc ==
    /\ pc = "check_before"
    /\ ~UT_IS_TEST_SUCCESSED(test_descs[i])
    /\ pc' = "call_after"
    /\ UNCHANGED <<suite, test_descs, i, result, asserts, failedInCall>>
    /\ UNCHANGED hist
    /\ UNCHANGED obs
    /\ UNCHANGED env

\* Line 285: call after_each.
CallAfterEach ==
    /\ pc = "call_after"
    /\ afterCalls' = [afterCalls EXCEPT ![i] = @ + 1]
    /\ asserts' = 0
    /\ failedInCall' = 0
    /\ pc' = "after_each"
    /\ UNCHANGED <<suite, test_descs, i, result, startupCalls, teardownCalls, begun,
                   beforeCalls, funcCalls, okTests, failedTests, startupFailed,
                   teardownFailed, beforeFailed>>
    /\ UNCHANGED obs
    /\ UNCHANGED env

\* TallySuccessful without the increment of line 291: only the observer fires.
TallySuccessful_noCount ==
    /\ pc = "tally"
    /\ UT_IS_TEST_SUCCESSED(test_descs[i])
    /\ suite' = suite
    /\ okTests' = [okTests EXCEPT ![i] = @ + 1]
    /\ i' = i + 1
    /\ pc' = "loop"
    /\ UNCHANGED <<test_descs, result, asserts, failedInCall, startupCalls, teardownCalls,
                   begun, beforeCalls, funcCalls, afterCalls, failedTests, startupFailed,
                   teardownFailed, beforeFailed>>
    /\ UNCHANGED obs
    /\ UNCHANGED env

\* Lines 289-293, 262: the test ended successful; count it, fire the observer, ++i.
TallySuccessful ==
    /\ pc = "tally"
    /\ UT_IS_TEST_SUCCESSED(test_descs[i])
    /\ suite' = [suite EXCEPT !.successed_count = @ + 1]
    /\ okTests' = [okTests EXCEPT ![i] = @ + 1]
    /\ i' = i + 1
    /\ pc' = "loop"
    /\ UNCHANGED <<test_descs, result, asserts, failedInCall, startupCalls, teardownCalls,
                   begun, beforeCalls, funcCalls, afterCalls, failedTests, startupFailed,
                   teardownFailed, beforeFailed>>
    /\ UNCHANGED obs
    /\ UNCHANGED env

\* TallyFailed that counts the failed test as successful in the suite.
TallyFailed_counted ==
    /\ pc = "tally"
    /\ ~UT_IS_TEST_SUCCESSED(test_descs[i])
    /\ suite' = [suite EXCEPT !.successed_count = @ + 1]
    /\ failedTests' = [failedTests EXCEPT ![i] = @ + 1]
    /\ i' = i + 1
    /\ pc' = "loop"
    /\ UNCHANGED <<test_descs, result, asserts, failedInCall, startupCalls,
                   teardownCalls, begun, beforeCalls, funcCalls, afterCalls, okTests,
                   startupFailed, teardownFailed, beforeFailed>>
    /\ UNCHANGED obs
    /\ UNCHANGED env

\* TallyFailed that leaves the loop at the first failed test.
TallyFailed_break ==
    /\ pc = "tally"
    /\ ~UT_IS_TEST_SUCCESSED(test_descs[i])
    /\ failedTests' = [failedTests EXCEPT ![i] = @ + 1]
    /\ i' = Len(test_descs)
    /\ pc' = "loop"
    /\ UNCHANGED <<suite, test_descs, result, asserts, failedInCall, startupCalls,
                   teardownCalls, begun, beforeCalls, funcCalls, afterCalls, okTests,
                   startupFailed, teardownFailed, beforeFailed>>
    /\ UNCHANGED obs
    /\ UNCHANGED env

\* Lines 295-298, 262: the test ended failed; fire the observer, ++i.
TallyFailed ==
    /\ pc = "tally"
    /\ ~UT_IS_TEST_SUCCESSED(test_descs[i])
    /\ failedTests' = [failedTests EXCEPT ![i] = @ + 1]
    /\ i' = i + 1
    /\ pc' = "loop"
    /\ UNCHANGED <<suite, test_descs, result, asserts, failedInCall, startupCalls,
                   teardownCalls, begun, beforeCalls, funcCalls, afterCalls, okTests,
                   startupFailed, teardownFailed, beforeFailed>>
    /\ UNCHANGED obs
    /\ UNCHANGED env

\* CallTeardown that calls teardown only while the suite is still successful.
CallTeardown_unlessFailed ==
    /\ pc = "loop"
    /\ test_descs[i].func = "NULL"
    /\ teardownCalls' = IF UT_IS_TEST_SUITE_SUCCESSED(suite) THEN teardownCalls + 1 ELSE teardownCalls
    /\ asserts' = 0
    /\ failedInCall' = 0
    /\ pc' = IF UT_IS_TEST_SUITE_SUCCESSED(suite) THEN "teardown" ELSE "return"
    /\ UNCHANGED <<suite, test_descs, i, result, startupCalls, begun, beforeCalls,
                   funcCalls, afterCalls, okTests, failedTests, startupFailed,
                   teardownFailed, beforeFailed>>
    /\ UNCHANGED obs
    /\ UNCHANGED env

\* Lines 262, 302: the entry is the sentinel; leave the loop and call teardown.
CallTeardown ==
    /\ pc = "loop"
    /\ test_descs[i].func = "NULL"
    /\ teardownCalls' = teardownCalls + 1
    /\ asserts' = 0
    /\ failedInCall' = 0
    /\ pc' = "teardown"
    /\ UNCHANGED <<suite, test_descs, i, result, startupCalls, begun, beforeCalls,
                   funcCalls, afterCalls, okTests, failedTests, startupFailed,
                   teardownFailed, beforeFailed>>
    /\ UNCHANGED obs
    /\ UNCHANGED env

\* Line 305: return the suite's success flag.
Return ==
    /\ pc = "return"
    /\ result' = UT_IS_TEST_SUITE_SUCCESSED(suite)
    /\ pc' = "done"
    /\ UNCHANGED <<suite, test_descs, i, asserts, failedInCall>>
    /\ UNCHANGED hist
    /\ UNCHANGED obs
    /\ UNCHANGED env

Next ==
    \/ RunTestSuite
    \/ \E holds \in BOOLEAN : SuiteAssert(holds)
    \/ \E holds \in BOOLEAN : TestAssert(holds)
    \/ HookReturn
    \/ StartupFailedReturn
    \/ EnterLoop
    \/ BeginTest
    \/ CallFunc
    \/ SkipFunc
    \/ CallAfterEach
    \/ TallySuccessful
    \/ TallyFailed
    \/ CallTeardown
    \/ Return

Spec == Init /\ [][Next]_vars

\* The steps of the runner and of the hooks and bodies it calls: every step but
\* the caller's invocation of the runner.
RunnerStep ==
    \/ \E holds \in BOOLEAN : SuiteAssert(holds)
    \/ \E holds \in BOOLEAN : TestAssert(holds)
    \/ HookReturn
    \/ StartupFailedReturn
    \/ EnterLoop
    \/ BeginTest
    \/ CallFunc
    \/ SkipFunc
    \/ CallAfterEach
    \/ TallySuccessful
    \/ TallyFailed
    \/ CallTeardown
    \/ Return

\* Execution is sequential: an invocation that can take a step takes it, and
\* hooks and bodies return.  Nothing obliges the caller to run the suite again.
InitFair == Init /\ NumTests <= FewTests
SpecFair == InitFair /\ [][Next]_vars /\ WF_vars(RunnerStep)

\* The suite is run once or twice with any behaviour of its hooks and bodies
\* (the second of these runs is recorded) and then once more with every
\* invocation behaving as the recorded one did.
InitTwice ==
    /\ suite = [started |-> FALSE, performed_count |-> 0, successed_count |-> 0]
    /\ \E n \in 0..FewTests : test_descs = UT_DECLARE_TEST_SUITE(n)
    /\ pc = "idle"
    /\ i = 1
    /\ result = FALSE
    /\ asserts = 0
    /\ failedInCall = 0
    /\ startupCalls = 0
    /\ teardownCalls = 0
    /\ begun = Zero
    /\ beforeCalls = Zero
    /\ funcCalls = Zero
    /\ afterCalls = Zero
    /\ okTests = Zero
    /\ failedTests = Zero
    /\ startupFailed = FALSE
    /\ teardownFailed = FALSE
    /\ beforeFailed = FALSE
    /\ testEvaluated = 0
    /\ suiteEvaluated = 0
    /\ suiteHeld = 0
    /\ mode \in {"begin", "warmup"}
    /\ log = EmptyLog
    /\ first = [result |-> FALSE, suite |-> suite, test_descs |-> test_descs]

SpecTwice == InitTwice /\ [][Next]_vars

----------------------------------------------------------------------------
\* Tests the runner began in this run, and whether all of them are successful now.
Attempted == {j \in 1..NumTests : begun[j] > 0}
AllAttemptedSuccessful == \A j \in Attempted : UT_IS_TEST_SUCCESSED(test_descs[j])

C2_SuccessLeqPerformed ==
    /\ suite.successed_count <= suite.performed_count
    /\ \A j \in DOMAIN test_descs :
          test_descs[j].successed_count <= test_descs[j].performed_count

\* A finished run in which the suite and a test each have passed and failed counts.
C2_Witness ==
    /\ pc = "done"
    /\ 0 < suite.successed_count /\ suite.successed_count < suite.performed_count
    /\ \E j \in 1..NumTests :
          /\ 0 < test_descs[j].successed_count
          /\ test_descs[j].successed_count < test_descs[j].performed_count

\* C3 (as stated): when a run whose startup did not fail has returned, the
\* suite's performed_count equals the number N of declared tests; for N = 0 the
\* verdict is true and both suite counters are 0.
C3_PerformedEqualsNumTests ==
    (pc = "done" /\ ~startupFailed) =>
        /\ suite.performed_count = NumTests
        /\ NumTests = 0 => (result /\ suite.performed_count = 0 /\ suite.successed_count = 0)

\* Positions of a run that are past the call of before_each on the current test.
AfterBeforePcs == {"check_before", "func", "call_after", "after_each", "tally"}
\* Positions of a run that are past the decision about the body of the current test.
AfterFuncPcs == {"call_after", "after_each", "tally"}
\* Test j has been tallied in this run: one of the two test observers fired for it.
Tallied(j) == okTests[j] + failedTests[j] = 1

\* C4: once startup has left the suite failed the run is at the check of line 256
\* or has returned false; no test was begun, no before_each, body or after_each
\* was invoked, no test observer fired and teardown was not invoked.
C4_StartupFailureSkipsAll ==
    /\ pc = "check_startup" => (startupFailed <=> ~UT_IS_TEST_SUITE_SUCCESSED(suite))
    /\ startupFailed =>
        /\ pc \in {"check_startup", "done"}
        /\ pc = "done" => ~result
        /\ begun = Zero
        /\ beforeCalls = Zero
        /\ funcCalls = Zero
        /\ afterCalls = Zero
        /\ okTests = Zero
        /\ failedTests = Zero
        /\ teardownCalls = 0

\* A later run of a suite whose tests ran before returned after a failed startup.
C4_Witness ==
    /\ pc = "done"
    /\ startupFailed
    /\ NumTests = 2
    /\ test_descs[1].started /\ test_descs[2].started

\* C5 (as stated): when a run whose startup failed has returned, the suite's
\* performed_count is 0.
C5_PerformedZeroAfterFailedStartup ==
    (pc = "done" /\ startupFailed) => suite.performed_count = 0

\* C6: before_each and after_each are invoked at most once per test and run;
\* before_each has been invoked once the body is considered, after_each is not
\* invoked before the body was run or skipped, and it has been invoked exactly
\* once when the test is tallied, whether the body ran, aborted or was skipped.
C6_BeforeAndAfterOncePerTest ==
    /\ \A j \in TestIds :
        /\ beforeCalls[j] = begun[j]
        /\ beforeCalls[j] <= 1
        /\ afterCalls[j] <= 1
        /\ funcCalls[j] > 0 => beforeCalls[j] = 1
        /\ afterCalls[j] > 0 => beforeCalls[j] = 1
        /\ Tallied(j) => (beforeCalls[j] = 1 /\ afterCalls[j] = 1)
    /\ pc \in AfterBeforePcs => beforeCalls[i] = 1
    /\ pc \in {"before_each", "check_before", "func", "call_after"} => afterCalls[i] = 0
    /\ pc = "tally" => afterCalls[i] = 1

\* The first test's body was skipped, the second test's body aborted on its
\* first assertion, and after_each has run for both.
C6_Witness ==
    /\ pc = "tally"
    /\ i = 2
    /\ funcCalls[1] = 0 /\ afterCalls[1] = 1 /\ beforeCalls[1] = 1
    /\ funcCalls[2] = 1 /\ afterCalls[2] = 1 /\ beforeCalls[2] = 1
    /\ asserts = 0
    /\ test_descs[2].performed_count = 1 /\ test_descs[2].successed_count = 0

\* C7, state part: when before_each has returned, the test is failed exactly
\* when an assertion failed in before_each; then the body is not invoked,
\* otherwise it is invoked exactly once; a test failed after before_each is
\* tallied by the failed-test observer and never by the successful-test one.
C7_Inv ==
    /\ pc = "check_before" =>
         (beforeFailed <=> test_descs[i].performed_count # test_descs[i].successed_count)
    /\ pc = "func" => (~beforeFailed /\ funcCalls[i] = 1)
    /\ pc \in AfterFuncPcs => funcCalls[i] = (IF beforeFailed THEN 0 ELSE 1)
    /\ \A j \in TestIds : funcCalls[j] <= 1
    /\ (pc = "loop" /\ i > 1 /\ beforeFailed) =>
         (funcCalls[i - 1] = 0 /\ failedTests[i - 1] = 1 /\ okTests[i - 1] = 0)

\* C7, step part: the step that decides about the body calls it iff the test is
\* not failed; the step that tallies a test failed after before_each leaves the
\* suite's successed_count unchanged and fires the failed-test observer.
C7_Step ==
    /\ pc = "check_before" =>
         IF test_descs[i].performed_count # test_descs[i].successed_count
         THEN funcCalls' = funcCalls /\ pc' = "call_after"
         ELSE funcCalls'[i] = 1 /\ pc' = "func"
    /\ (pc = "tally" /\ beforeFailed) =>
         /\ suite'.successed_count = suite.successed_count
         /\ failedTests'[i] = failedTests[i] + 1
         /\ okTests' = okTests

\* C7: a test failed after before_each never has its body invoked and is tallied
\* as failed; a test not failed after before_each has its body invoked once.
C7_FailedBeforeSkipsBody == []C7_Inv /\ [][C7_Step]_vars

\* The first test was tallied as failed without its body after a failed before_each.
C7_Witness ==
    /\ pc = "loop"
    /\ i = 2
    /\ beforeFailed
    /\ funcCalls[1] = 0
    /\ afterCalls[1] = 1
    /\ failedTests[1] = 1
    /\ suite.successed_count = 0

\* C8, state part: a running invocation has had no failed assertion, and no
\* invocation has more than one.
C8_Inv ==
    /\ failedInCall <= 1
    /\ pc \in HookPcs => failedInCall = 0

\* C8, step part: the step of a failed assertion adds one to the
\* performed_count of the invocation's descriptor, keeps its successed_count
\* and leaves the invocation.
C8_Step ==
    failedInCall' = failedInCall + 1 =>
        /\ pc \in HookPcs
        /\ pc' \notin HookPcs
        /\ IF pc \in SuiteHookPcs
           THEN /\ suite'.performed_count = suite.performed_count + 1
                /\ suite'.successed_count = suite.successed_count
           ELSE /\ test_descs'[i].performed_count = test_descs[i].performed_count + 1
                /\ test_descs'[i].successed_count = test_descs[i].successed_count

\* C8: a failed assertion counts once on performed_count, not on
\* successed_count, and ends the invocation, so that an invocation has at most
\* one failed assertion and evaluates nothing after it.
C8_FailedAssertEndsInvocation == []C8_Inv /\ [][C8_Step]_vars

\* A test body aborted on its first assertion although more could follow.
C8_Witness ==
    /\ pc = "call_after"
    /\ funcCalls[i] = 1
    /\ failedInCall = 1
    /\ asserts = 1
    /\ asserts < MaxAsserts
    /\ test_descs[i].performed_count = 1 /\ test_descs[i].successed_count = 0

\* The run is past its loop over the tests without a startup failure.
PastLoop == pc \in {"teardown", "return"} \/ (pc = "done" /\ ~startupFailed)

\* C9: no test is begun twice and the sentinel is never begun; a test is begun
\* only when every earlier test has had its after_each and its observer; once
\* the loop is left without startup failure every declared test was begun once.
C9_EveryTestOnceInOrder ==
    /\ \A j \in TestIds : begun[j] <= 1
    /\ \A j \in TestIds : j > NumTests => begun[j] = 0
    /\ \A j, k \in TestIds :
          (j < k /\ begun[k] > 0) => (begun[j] = 1 /\ afterCalls[j] = 1 /\ Tallied(j))
    /\ PastLoop => \A j \in 1..NumTests : begun[j] = 1 /\ Tallied(j)

\* The first test failed and the second was still begun and ended successful.
C9_Witness ==
    /\ pc = "done"
    /\ NumTests = 2
    /\ failedTests[1] = 1
    /\ begun[2] = 1
    /\ okTests[2] = 1

HowMany(a, b, c) == (IF a THEN 1 ELSE 0) + (IF b THEN 1 ELSE 0) + (IF c THEN 1 ELSE 0)

\* C11 (as stated): for every test descriptor and for the suite descriptor
\* exactly one of skipped, successful, failed holds, and failed holds iff the
\* descriptor is started with performed_count # successed_count.
C11_ExactlyOneOfSkippedSuccessfulFailed ==
    /\ \A j \in DOMAIN test_descs :
        LET d == test_descs[j] IN
        /\ HowMany(UT_IS_TEST_SKIPPED(d), UT_IS_TEST_SUCCESSED(d), UT_IS_TEST_FAILED(d)) = 1
        /\ UT_IS_TEST_SKIPPED(d) <=> ~d.started
        /\ UT_IS_TEST_SUCCESSED(d) <=> (d.started /\ d.performed_count = d.successed_count)
        /\ UT_IS_TEST_FAILED(d) <=> (d.started /\ d.performed_count # d.successed_count)
    /\ HowMany(UT_IS_TEST_SUITE_SKIPPED(suite), UT_IS_TEST_SUITE_SUCCESSED(suite),
               UT_IS_TEST_SUITE_FAILED(suite)) = 1
    /\ UT_IS_TEST_SUITE_SKIPPED(suite) <=> ~suite.started
    /\ UT_IS_TEST_SUITE_SUCCESSED(suite) <=>
           (suite.started /\ suite.performed_count = suite.successed_count)
    /\ UT_IS_TEST_SUITE_FAILED(suite) <=>
           (suite.started /\ suite.performed_count # suite.successed_count)

\* C13 (as stated): when a run has returned, every test the runner did not
\* begin in that run is skipped with both counters 0.
C13_NotBegunIsSkipped ==
    pc = "done" =>
        \A j \in 1..NumTests :
            begun[j] = 0 =>
                /\ ~test_descs[j].started
                /\ test_descs[j].performed_count = 0
                /\ test_descs[j].successed_count = 0

\* C12: when the run that repeats the behaviour of the run before it has
\* returned, its verdict, the suite descriptor and every test descriptor equal
\* those the run before it ended with.
C12_SecondRunSameOutcome ==
    (pc = "done" /\ mode = "replay") =>
        /\ result = first.result
        /\ suite = first.suite
        /\ test_descs = first.test_descs

\* The repeated run of a one-test suite ended: startup evaluated an assertion
\* that held and the test failed.
C12_Witness ==
    /\ pc = "done"
    /\ mode = "replay"
    /\ NumTests = 1
    /\ suiteEvaluated > 0
    /\ failedTests[1] = 1
    /\ ~result

\* C14, state part: a test on which no assertion was evaluated has both
\* counters 0 and is successful when it is tallied, and it was tallied by the
\* successful-test observer.
C14_Inv ==
    /\ (pc = "tally" /\ testEvaluated = 0) =>
          /\ test_descs[i].performed_count = 0
          /\ test_descs[i].successed_count = 0
          /\ UT_IS_TEST_SUCCESSED(test_descs[i])
    /\ (pc = "loop" /\ i > 1 /\ testEvaluated = 0) =>
          (okTests[i - 1] = 1 /\ failedTests[i - 1] = 0)

\* C14, step part: tallying such a test adds one to the suite's successed_count
\* and fires the successful-test observer only.
C14_Step ==
    (pc = "tally" /\ testEvaluated = 0) =>
        /\ suite'.successed_count = suite.successed_count + 1
        /\ okTests'[i] = okTests[i] + 1
        /\ failedTests' = failedTests

\* C14: an attempted test with no assertion evaluated ends with both counters 0,
\* is successful, is counted in the suite's successed_count and fires the
\* successful-test observer.
C14_NoAssertionIsSuccessful == []C14_Inv /\ [][C14_Step]_vars

\* The first test ran its body without any assertion and was tallied successful.
C14_Witness ==
    /\ pc = "loop"
    /\ i = 2
    /\ testEvaluated = 0
    /\ funcCalls[1] = 1
    /\ okTests[1] = 1
    /\ suite.successed_count = suite.performed_count

\* Positions inside one test, from the call of before_each to the return of after_each.
InTestPcs == TestHookPcs \cup {"check_before", "call_after"}

\* C15, state part: at most one test observer firing per test; none before
\* after_each has returned; the successful-test observer fired iff the test's
\* counters are equal.
C15_Inv ==
    /\ \A j \in TestIds :
        /\ okTests[j] + failedTests[j] <= 1
        /\ Tallied(j) => (begun[j] = 1 /\ afterCalls[j] = 1)
        /\ (j <= NumTests /\ Tallied(j)) =>
              (okTests[j] = 1 <=>
                 test_descs[j].performed_count = test_descs[j].successed_count)
        /\ (begun[j] = 1 /\ j < i) => Tallied(j)
    /\ pc \in InTestPcs \cup {"tally"} => okTests[i] + failedTests[i] = 0

\* C15, step part: the tally of a test fires the successful-test observer and
\* adds one to the suite's successed_count when the test's counters are equal,
\* fires the failed-test observer and keeps successed_count otherwise; no other
\* step of a run fires a test observer.
C15_Step ==
    /\ pc = "tally" =>
         IF test_descs[i].performed_count = test_descs[i].successed_count
         THEN /\ okTests'[i] = 1 /\ failedTests'[i] = 0
              /\ suite'.successed_count = suite.successed_count + 1
         ELSE /\ okTests'[i] = 0 /\ failedTests'[i] = 1
              /\ suite'.successed_count = suite.successed_count
    /\ (pc # "tally" /\ pc' # "startup") => (okTests' = okTests /\ failedTests' = failedTests)

\* C15: exactly one test observer fires per attempted test, once, after
\* after_each; the successful one, with the suite's successed_count incremented,
\* iff the test's counters are equal then.
C15_OneObserverPerTest == []C15_Inv /\ [][C15_Step]_vars

\* A run of two tests ended with the first tallied successful and the second failed.
C15_Witness ==
    /\ pc = "done"
    /\ okTests[1] = 1 /\ failedTests[1] = 0
    /\ okTests[2] = 0 /\ failedTests[2] = 1
    /\ suiteEvaluated = 0
    /\ suite.performed_count = 2
    /\ suite.successed_count = 1

\* C17: the step of an assertion on the current test changes only that test's
\* two counters; no step between the call of before_each and the return of
\* after_each changes the suite descriptor, and the runner's steps around a
\* test change the suite counters by its own increments only.
C17_Step ==
    /\ testEvaluated' = testEvaluated + 1 =>
         /\ pc \in TestHookPcs
         /\ suite' = suite
         /\ DOMAIN test_descs' = DOMAIN test_descs
         /\ \A j \in DOMAIN test_descs : j # i => test_descs'[j] = test_descs[j]
         /\ test_descs'[i].started = test_descs[i].started
         /\ test_descs'[i].func = test_descs[i].func
    /\ pc \in InTestPcs => suite' = suite
    /\ pc = "loop" =>
         /\ suite'.started = suite.started
         /\ suite'.successed_count = suite.successed_count
         /\ suite'.performed_count \in {suite.performed_count, suite.performed_count + 1}
    /\ pc = "tally" =>
         /\ suite'.started = suite.started
         /\ suite'.performed_count = suite.performed_count
         /\ suite'.successed_count \in {suite.successed_count, suite.successed_count + 1}

C17_TestAssertFrame == [][C17_Step]_vars

\* The second test evaluated two assertions, one failing; the first test and
\* the suite's count of the first test are as they were.
C17_Witness ==
    /\ pc = "tally"
    /\ i = 2
    /\ testEvaluated = 2
    /\ test_descs[2].performed_count = 2 /\ test_descs[2].successed_count = 1
    /\ test_descs[1].started
    /\ test_descs[1].performed_count = 0 /\ test_descs[1].successed_count = 0
    /\ suiteEvaluated = 0
    /\ suite.performed_count = 2 /\ suite.successed_count = 1

\* C18, state part: a test in which before_each failed is failed when it is
\* tallied; a run that tallied a failed test returned false.
C18_Inv ==
    /\ (pc = "tally" /\ beforeFailed) => UT_IS_TEST_FAILED(test_descs[i])
    /\ (pc = "done" /\ \E j \in TestIds : failedTests[j] = 1) => ~result

\* C18 (as stated), step part: performed_count - successed_count of the suite
\* decreases only in the step that enters a run, that of a test only in the
\* step that begins the test.
C18_StepAsStated ==
    /\ pc' # "startup" =>
         suite'.performed_count - suite'.successed_count
            >= suite.performed_count - suite.successed_count
    /\ \A j \in DOMAIN test_descs :
         \/ j \in TestIds /\ begun'[j] = begun[j] + 1
         \/ test_descs'[j].performed_count - test_descs'[j].successed_count
               >= test_descs[j].performed_count - test_descs[j].successed_count

\* C18 (as stated): for every descriptor performed_count - successed_count never
\* decreases between its reset and the end of the run.
C18_DifferenceNeverDecreases == [][C18_StepAsStated]_vars

\* The test in progress, counted in the suite's performed_count at line 273 and
\* not yet tallied.
InProgress == IF pc \in InTestPcs \cup {"tally"} THEN 1 ELSE 0

\* C18 (amended), step part: performed_count - successed_count of a test
\* decreases only in the step that begins the test; that of the suite, the
\* test in progress not counted, decreases only in the step that enters a run;
\* a test failed inside a test stays failed up to its tally.
C18_Step ==
    /\ pc' # "startup" =>
         suite'.performed_count - suite'.successed_count - InProgress'
            >= suite.performed_count - suite.successed_count - InProgress
    /\ \A j \in DOMAIN test_descs :
         \/ j \in TestIds /\ begun'[j] = begun[j] + 1
         \/ test_descs'[j].performed_count - test_descs'[j].successed_count
               >= test_descs[j].performed_count - test_descs[j].successed_count
    /\ (pc \in InTestPcs /\ UT_IS_TEST_FAILED(test_descs[i])) =>
         UT_IS_TEST_FAILED(test_descs'[i])

\* C18 (amended): failure is sticky within a run.
C18_FailureIsSticky == []C18_Inv /\ [][C18_Step]_vars

\* A test that failed before after_each is still failed after after_each
\* evaluated an assertion that held.
C18_Witness ==
    /\ pc = "tally"
    /\ asserts = 1
    /\ failedInCall = 0
    /\ test_descs[i].performed_count = 2
    /\ test_descs[i].successed_count = 1

\* Tests tallied successful in this run.
NumOk == Cardinality({j \in TestIds : okTests[j] = 1})
\* Tests begun in this run.
NumBegun == Cardinality({j \in TestIds : begun[j] = 1})

C20_Inv == startupFailed => begun = Zero

\* C20, step part: no step of a run that has begun no test changes a test
\* descriptor, and a step changes only the current test's descriptor, when it
\* begins the test or evaluates an assertion on it.
C20_Step ==
    /\ begun' = Zero => test_descs' = test_descs
    /\ \A j \in DOMAIN test_descs :
         test_descs'[j] # test_descs[j] =>
            /\ j = i
            /\ j \in TestIds
            /\ begun'[j] = begun[j] + 1 \/ testEvaluated' = testEvaluated + 1

\* C20: a run whose startup fails leaves every test descriptor as it was; the
\* runner writes a test descriptor only when it begins that test.
C20_FailedStartupKeepsTests == []C20_Inv /\ [][C20_Step]_vars

\* A run returned after a failed startup and the first test still shows the
\* failed outcome of an earlier run.
C20_Witness ==
    /\ pc = "done"
    /\ startupFailed
    /\ NumTests >= 1
    /\ test_descs[1].started
    /\ test_descs[1].performed_count = 2
    /\ test_descs[1].successed_count = 1

\* C16, step part: the run returns only from the check after startup or from
\* the return statement after teardown, and once it has returned nothing
\* happens but a new invocation.
C16_Step ==
    /\ (pc # "done" /\ pc' = "done") => pc \in {"check_startup", "return"}
    /\ pc = "done" => pc' = "startup"

\* C16: every invocation of the runner eventually returns, and returns once,
\* whatever assertions fail in startup, hooks, bodies or teardown.
C16_EveryRunReturns ==
    /\ (pc \notin {"idle", "done"}) ~> (pc = "done")
    /\ [][C16_Step]_vars

\* A run returned in which an assertion failed in before_each and in teardown.
C16_Witness ==
    /\ pc = "done"
    /\ beforeFailed
    /\ teardownFailed
    /\ failedTests[NumTests] = 1
====
